---- MODULE Spec2Model ----
(***************************************************************************)
(* Smart Card Detective, trunk/avrsrc/scd.c: the boot sequence (InitSCD,   *)
(* main), the application dispatch and the terminal-reset interrupt        *)
(* handler ISR(INT0_vect) that flushes the transaction log to EEPROM,      *)
(* toggles the warm-reset byte and arms the watchdog.                      *)
(*                                                                         *)
(* The EEPROM is modelled as its five byte fields plus the bytes the       *)
(* handler writes through addrStream; the addresses of the fields are set  *)
(* in scd_values.h and are not related here to the addresses of the log    *)
(* stream.  The handler runs with interrupts disabled and is one action.   *)
(***************************************************************************)
EXTENDS Integers, Sequences, FiniteSets, TLC

\* ---------------------------------------------------------------- bounds
\* Number of CRP slots of transactionData in the model.
MaxRecords == 2

\* ------------------------------------------------------------- constants
\* scd_values.h / scd.h / apps.h values used by scd.c
MAX_EXCHANGES == MaxRecords
\* 0xAA
WARM_RESET_VALUE == 170
\* The log region [EEPROM_TLOG_DATA, EEPROM_MAX_ADDRESS]: page aligned, and
\* more than 256 bytes above address 0 so that both bytes of the log pointer
\* matter; a region of 192 bytes keeps the state space small.
EEPROM_TLOG_DATA == 128
EEPROM_MAX_ADDRESS == 320
\* the value of an erased EEPROM byte
ERASED == 255

\* the application ids: SelectApplication returns 1..APPLICATION_COUNT
APP_STORE_PIN == 1
APP_LOG_FORWARD == 2
APP_FW_MODIFY_PIN == 3
APP_FILTER_GENERATEAC == 4
APP_FILTER_LOG == 5
APP_TERMINAL == 6
APP_VIRTUAL_SERIAL_PORT == 7
APP_ERASE_EEPROM == 8
APPLICATION_COUNT == 8

\* markers of the log stream, ISR(INT0_vect) locals
cmdstr == <<204, 204, 204, 204, 204>>
rspstr == <<170, 170, 170, 170, 170>>
appstr == <<221, 221, 221, 221, 221>>
endstr == <<187, 187, 187, 187, 187>>

NULL == <<>>

\* The CRPs an application can log (command bytes, response bytes).
CRPs ==
  { [cmd |-> <<0, 164, 4, 0, 14>>, response |-> <<144, 0>>],
    [cmd |-> <<0, 192, 0, 0, 14>>, response |-> <<222, 173, 190, 239, 144, 0>>] }

EEFields ==
  { "EEPROM_APPLICATION", "EEPROM_WARM_RESET", "EEPROM_COUNTER",
    "EEPROM_TLOG_POINTER_HI", "EEPROM_TLOG_POINTER_LO" }

VARIABLES
  eeprom,          \* the EEPROM byte fields
  warmResetByte, transactionData, nTransactions, nCounter,
  selected,        \* the globals of scd.c
  INT0,            \* EIMSK bit INT0
  wdt,             \* the watchdog is armed
  pc,              \* where main is
  app,             \* the application main has called
  isr,             \* what the last run of ISR(INT0_vect) in this boot did
  boot             \* how this boot and the previous one got to dispatch

vars == << eeprom, warmResetByte, transactionData, nTransactions,
           nCounter, selected, INT0, wdt, pc, app, isr, boot >>

\* ------------------------------------------------------------- helpers
Byte == 0..255

\* addrStream = ((addrHi << 8) | addrLo)
Word(hi, lo) == hi * 256 + lo

\* the log pointer the EEPROM holds
LogPointer == Word(eeprom["EEPROM_TLOG_POINTER_HI"], eeprom["EEPROM_TLOG_POINTER_LO"])

\* eeprom_write_block(src, (void*)addr, n): the <<address, byte>> pairs written
WriteBlock(addr, src) ==
  [k \in 1..Len(src) |-> << (addr + k - 1) % 65536, src[k] >>]

\* SerializeCommand / SerializeResponse (emv.c): the bytes of the APDU, or NULL
\* when the stream cannot be allocated.
SerializeCommand(cmd, ok) == IF ok THEN cmd ELSE NULL
SerializeResponse(response, ok) == IF ok THEN response ELSE NULL

\* if(addrStream == 0xFFFF) addrStream = EEPROM_TLOG_DATA;
LoadAddr(hi, lo) ==
  IF Word(hi, lo) = 65535 THEN EEPROM_TLOG_DATA ELSE Word(hi, lo)

\* FlushGuard without the test of the cursor against the end of the region
FlushGuard_NoBound(n, addrStream) == n > 0

\* if(nTransactions > 0 && addrStream < EEPROM_MAX_ADDRESS)
FlushGuard(n, addrStream) == n > 0 /\ addrStream < EEPROM_MAX_ADDRESS

\* WriteFrame without addrStream += 5 between the marker and the stream
WriteFrame_Overlap(st, marker, stream) ==
  IF stream = NULL THEN st
  ELSE LET a == (st.addr + 5 + Len(stream)) % 65536
       IN [st EXCEPT
             !.written = @ \o WriteBlock(st.addr, marker)
                           \o WriteBlock(st.addr, stream),
             !.addr = a,
             !.brk = a > EEPROM_MAX_ADDRESS]

\* One frame of the loop body: marker, stream, addrStream += 5 + lStream.
\* st = [addr, written, freed, brk]
WriteFrame(st, marker, stream) ==
  IF stream = NULL THEN st
  ELSE LET a == (st.addr + 5 + Len(stream)) % 65536
       IN [st EXCEPT
             !.written = @ \o WriteBlock(st.addr, marker)
                           \o WriteBlock((st.addr + 5) % 65536, stream),
             !.addr = a,
             !.brk = a > EEPROM_MAX_ADDRESS]

\* for(i = 0; i < nTransactions; i++) { ... } with its two breaks and FreeCRP
RECURSIVE FlushLoop(_, _, _, _, _)
FlushLoop(i, n, st, data, ok) ==
  IF i > n THEN st
  ELSE LET s1 == WriteFrame(st, cmdstr, SerializeCommand(data[i].cmd, ok[i][1]))
       IN IF s1.brk THEN s1
          ELSE LET s2 == WriteFrame(s1, rspstr,
                                    SerializeResponse(data[i].response, ok[i][2]))
               IN IF s2.brk THEN s2
                  ELSE FlushLoop(i + 1, n,
                                 [s2 EXCEPT !.freed = [@ EXCEPT ![i] = @ + 1]],
                                 data, ok)

\* addrHi, addrLo of the updated log address (addrLo += 8; addrLo &= 0xF8)
NextAddrHi(addrStream) == (addrStream \div 256) % 256
NextAddrLo(addrStream) ==
  LET lo == ((addrStream % 256) + 8) % 256 IN lo - (lo % 8)

\* The body of if(nTransactions > 0 && addrStream < EEPROM_MAX_ADDRESS):
\* application header, the records, the end marker.
Flush(addr0, n, data, ok, sel) ==
  LET hdr == [addr |-> (addr0 + 6) % 65536,
              written |-> WriteBlock(addr0, appstr)
                          \o << << (addr0 + 5) % 65536, sel >> >>,
              freed |-> [k \in 1..n |-> 0],
              brk |-> FALSE]
      lp == FlushLoop(1, n, hdr, data, ok)
  IN [lp EXCEPT !.written = @ \o WriteBlock(lp.addr, endstr),
                !.addr = (lp.addr + 5) % 65536]

\* WarmResetNext without the test of GetTerminalFreq()
WarmResetNext_NoClock(freq, warm) ==
  IF warm = WARM_RESET_VALUE THEN 0 ELSE WARM_RESET_VALUE

\* The warm-reset byte ISR(INT0_vect) leaves in the EEPROM.
WarmResetNext(freq, warm) ==
  IF freq
  THEN IF warm = WARM_RESET_VALUE THEN 0 ELSE WARM_RESET_VALUE
  ELSE 0

\* ---------------------------------------------------------------- state
\* boot.menu when no selection of the menu is being followed: a value
\* SelectApplication() never returns
NoMenu == APPLICATION_COUNT + 1

NoIsr ==
  [ran |-> FALSE, freq |-> FALSE, ok |-> << >>, addr0 |-> 0, hi0 |-> 0, lo0 |-> 0,
   warm0 |-> 0, n0 |-> 0, data |-> << >>, sel |-> 0, flushed |-> FALSE,
   brk |-> FALSE, written |-> << >>, freed |-> << >>]

\* A fresh device: the EEPROM is erased, main has not started.
Init ==
  /\ eeprom = [f \in EEFields |-> ERASED]
  /\ warmResetByte = 0
  /\ transactionData = << >>
  /\ nTransactions = 0
  /\ nCounter = 0
  /\ selected = 0
  /\ INT0 = FALSE
  /\ wdt = FALSE
  /\ pc = "boot"
  /\ app = 0
  /\ isr = NoIsr
  /\ boot = [path |-> "none", dflt |-> FALSE, fellBack |-> FALSE, menu |-> NoMenu,
             warmEdge |-> FALSE]

\* The device restarts: the C runtime zeroes the globals, EIMSK is cleared.
Restart ==
  /\ warmResetByte' = 0
  /\ transactionData' = << >>
  /\ nTransactions' = 0
  /\ nCounter' = 0
  /\ selected' = 0
  /\ INT0' = FALSE
  /\ pc' = "boot"
  /\ app' = 0
  /\ isr' = NoIsr
  /\ boot' = [path |-> "none", dflt |-> FALSE,
              fellBack |-> (boot.fellBack \/ (boot.path = "read" /\ boot.dflt)),
              menu |-> IF boot.path = "read" THEN NoMenu ELSE boot.menu,
              warmEdge |-> boot.warmEdge]
  /\ UNCHANGED eeprom

\* The armed watchdog expires (wdt_enable(WDTO_15MS)); it stays enabled until
\* InitSCD disables it.
WatchdogReset ==
  /\ wdt
  /\ Restart
  /\ UNCHANGED wdt

\* Power is removed and applied again.
PowerCycle ==
  /\ pc # "boot"
  /\ Restart
  /\ wdt' = FALSE

\* InitSCD with a write of the warm-reset byte
InitSCD_SetsFlag ==
  /\ pc = "boot"
  /\ INT0' = FALSE
  /\ wdt' = FALSE
  /\ eeprom' = [eeprom EXCEPT !["EEPROM_WARM_RESET"] = WARM_RESET_VALUE]
  /\ warmResetByte' = WARM_RESET_VALUE
  /\ nCounter' = eeprom["EEPROM_COUNTER"]
  /\ nTransactions' = 0
  /\ pc' = "main"
  /\ UNCHANGED << transactionData, selected, app, isr, boot >>

\* InitSCD(): interrupts and watchdog off, globals read from the EEPROM.
InitSCD ==
  /\ pc = "boot"
  /\ INT0' = FALSE
  /\ wdt' = FALSE
  /\ warmResetByte' = eeprom["EEPROM_WARM_RESET"]
  /\ nCounter' = eeprom["EEPROM_COUNTER"]
  /\ nTransactions' = 0
  /\ pc' = "main"
  /\ UNCHANGED << eeprom, transactionData, selected, app, isr, boot >>

\* SelectApplication(): 0 when InitSCD found no LCD (lcdAvailable = 0), else
\* the entry i + 1 the user selects.  lcdAvailable is read nowhere else in
\* scd.c, so the outcome of CheckLCD() is drawn here.
SelectApplication ==
  {0} \cup { i + 1 : i \in 0..(APPLICATION_COUNT - 1) }

\* EraseEEPROM() (scd_hal.c): every byte back to the erased value.
EraseEEPROM == [f \in EEFields |-> ERASED]

\* main, button B pressed at restart: menu, then erase or store the selection,
\* and arm the watchdog.
MainMenu ==
  /\ pc = "main"
  /\ \E s \in SelectApplication :
       /\ selected' = s
       /\ eeprom' = IF s = APP_ERASE_EEPROM
                    THEN EraseEEPROM
                    ELSE [eeprom EXCEPT !["EEPROM_APPLICATION"] = s]
       /\ boot' = [boot EXCEPT !.path = "menu", !.fellBack = FALSE, !.menu = s,
                                !.warmEdge = (s # APP_ERASE_EEPROM /\ @)]
  /\ wdt' = TRUE
  /\ pc' = "dispatch"
  /\ UNCHANGED << warmResetByte, transactionData, nTransactions,
                  nCounter, INT0, app, isr >>

\* main, button B not pressed: the stored application.
MainRead ==
  /\ pc = "main"
  /\ selected' = eeprom["EEPROM_APPLICATION"]
  /\ pc' = "dispatch"
  /\ boot' = [boot EXCEPT !.path = "read"]
  /\ UNCHANGED << eeprom, warmResetByte, transactionData, nTransactions,
                   nCounter, INT0, wdt, app, isr >>

\* the ids that have a case of their own in the switch of main
KnownApps ==
  { APP_STORE_PIN, APP_LOG_FORWARD, APP_FW_MODIFY_PIN, APP_FILTER_GENERATEAC,
    APP_FILTER_LOG, APP_TERMINAL, APP_VIRTUAL_SERIAL_PORT }

\* boot once main is in the switch: the selection of the menu of the boot
\* before has been followed up to here
Dispatched ==
  [boot EXCEPT !.menu = IF boot.path = "read" THEN NoMenu ELSE @]

\* DefaultCase without the eeprom_write_byte of the default id
DefaultCase_NoPersist ==
  /\ selected' = APP_TERMINAL
  /\ eeprom' = eeprom
  /\ app' = APP_TERMINAL
  /\ pc' = "running"
  /\ boot' = [Dispatched EXCEPT !.dflt = TRUE]

\* default: selected = APP_TERMINAL; eeprom_write_byte(...); Terminal();
DefaultCase ==
  /\ selected' = APP_TERMINAL
  /\ eeprom' = [eeprom EXCEPT !["EEPROM_APPLICATION"] = APP_TERMINAL]
  /\ app' = APP_TERMINAL
  /\ pc' = "running"
  /\ boot' = [Dispatched EXCEPT !.dflt = TRUE]

\* switch(selected)
Dispatch ==
  /\ pc = "dispatch"
  /\ IF selected \in KnownApps
     THEN /\ app' = selected
          /\ pc' = "running"
          /\ boot' = Dispatched
          /\ UNCHANGED << selected, eeprom >>
     ELSE DefaultCase
  /\ UNCHANGED << warmResetByte, transactionData, nTransactions,
                  nCounter, INT0, wdt, isr >>

\* ------------------------------------------------- the running application
\* The application logs one exchange: transactionData[nTransactions++] = crp,
\* refused when the array is full.
AppLog ==
  /\ pc = "running"
  /\ nTransactions < MAX_EXCHANGES
  /\ \E crp \in CRPs : transactionData' = Append(transactionData, crp)
  /\ nTransactions' = nTransactions + 1
  /\ UNCHANGED << eeprom, warmResetByte, nCounter, selected, INT0,
                  wdt, pc, app, isr, boot >>

\* The application enables the terminal-reset interrupt, once per boot.
AppEnableINT0 ==
  /\ pc = "running"
  /\ ~INT0
  /\ ~isr.ran
  /\ INT0' = TRUE
  /\ UNCHANGED << eeprom, warmResetByte, transactionData, nTransactions,
                   nCounter, selected, wdt, pc, app, isr, boot >>

\* The application returns to main: VirtualSerial() falls through to the
\* default case, every other one leaves the switch and main ends in SwitchLeds().
AppReturn ==
  /\ pc = "running"
  /\ IF app = APP_VIRTUAL_SERIAL_PORT
     THEN DefaultCase
     ELSE /\ pc' = "leds"
          /\ UNCHANGED << selected, eeprom, app, boot >>
  /\ UNCHANGED << warmResetByte, transactionData, nTransactions,
                  nCounter, INT0, wdt, isr >>

\* The outcomes of the serializations of one run of the handler: ok[i][1] for
\* the command of record i, ok[i][2] for its response.  Either every stream
\* is allocated or exactly one SerializeCommand / SerializeResponse call
\* returns NULL.
AllOk(n) == [i \in 1..n |-> << TRUE, TRUE >>]
SerializeOutcomes(n) ==
  {AllOk(n)}
    \cup { [AllOk(n) EXCEPT ![i] = << FALSE, TRUE >>] : i \in 1..n }
    \cup { [AllOk(n) EXCEPT ![i] = << TRUE, FALSE >>] : i \in 1..n }

\* ----------------------------------------------------------- ISR(INT0_vect)
\* the log pointer the handler loads at its start
StoredAddr ==
  LoadAddr(eeprom["EEPROM_TLOG_POINTER_HI"], eeprom["EEPROM_TLOG_POINTER_LO"])

\* ArmOnExit with wdt_enable inside the if of the flush
ArmOnExit_FlushOnly(flushed) == flushed

\* wdt_enable(WDTO_15MS), the last statement of the handler on every path
ArmOnExit(flushed) == TRUE

\* ClearINT0 without the write to EIMSK
ClearINT0_Keep(enabled) == enabled

\* EIMSK &= ~(_BV(INT0)): the enable bit of INT0 after the handler
ClearINT0(enabled) == FALSE

\* The terminal reset line goes low while INT0 is enabled.  freq is
\* GetTerminalFreq() != 0; ok[i] tells whether the command and the response of
\* record i serialize.
INT0_vect ==
  /\ INT0
  /\ pc \in {"running", "leds"}
  /\ \E freq \in BOOLEAN, ok \in SerializeOutcomes(nTransactions) :
       LET hi0 == eeprom["EEPROM_TLOG_POINTER_HI"]
           lo0 == eeprom["EEPROM_TLOG_POINTER_LO"]
           addr0 == LoadAddr(hi0, lo0)
           guard == FlushGuard(nTransactions, addr0)
           fl == Flush(addr0, nTransactions, transactionData, ok, selected)
           warm0 == eeprom["EEPROM_WARM_RESET"]
       IN /\ eeprom' =
               [eeprom EXCEPT
                  !["EEPROM_COUNTER"] = nCounter,
                  !["EEPROM_TLOG_POINTER_HI"] =
                      IF guard THEN NextAddrHi(fl.addr) ELSE @,
                  !["EEPROM_TLOG_POINTER_LO"] =
                      IF guard THEN NextAddrLo(fl.addr) ELSE @,
                  !["EEPROM_WARM_RESET"] = WarmResetNext(freq, warm0)]
          /\ warmResetByte' = IF freq THEN warm0 ELSE warmResetByte
          /\ isr' = [ran |-> TRUE, freq |-> freq, ok |-> ok, addr0 |-> addr0,
                     hi0 |-> hi0, lo0 |-> lo0, warm0 |-> warm0,
                     n0 |-> nTransactions, data |-> transactionData,
                     sel |-> selected, flushed |-> guard,
                     brk |-> IF guard THEN fl.brk ELSE FALSE,
                     written |-> IF guard THEN fl.written ELSE << >>,
                     freed |-> IF guard THEN fl.freed
                               ELSE [k \in 1..nTransactions |-> 0]]
          /\ boot' = [boot EXCEPT !.warmEdge = (warm0 = WARM_RESET_VALUE)]
  /\ INT0' = ClearINT0(INT0)
  /\ wdt' = ArmOnExit(FlushGuard(nTransactions, StoredAddr))
  /\ UNCHANGED << transactionData, nTransactions, nCounter,
                  selected, pc, app >>

Next ==
  \/ InitSCD
  \/ MainMenu
  \/ MainRead
  \/ Dispatch
  \/ AppLog
  \/ AppEnableINT0
  \/ AppReturn
  \/ INT0_vect
  \/ WatchdogReset
  \/ PowerCycle

Spec == Init /\ [][Next]_vars

\* The armed watchdog expires after 15 ms whatever the program does, and the
\* CPU executes InitSCD after a reset.
FairSpec == Spec /\ WF_vars(WatchdogReset) /\ WF_vars(InitSCD)

TypeOK ==
  /\ eeprom \in [EEFields -> Byte]
  /\ nTransactions = Len(transactionData)
  /\ nTransactions \in 0..MAX_EXCHANGES
  /\ pc \in {"boot", "main", "dispatch", "running", "leds"}

\* ------------------------------------------------------------------------
\* Properties of the flush of ISR(INT0_vect)
\* ------------------------------------------------------------------------
\* the bytes and the addresses of a list of EEPROM writes
Bytes(w) == [k \in 1..Len(w) |-> w[k][2]]
Consecutive(w, from) == \A k \in 1..Len(w) : w[k][1] = from + k - 1

\* the log pointer the EEPROM holds, read the way the handler reads it
StoredCursor ==
  LoadAddr(eeprom["EEPROM_TLOG_POINTER_HI"], eeprom["EEPROM_TLOG_POINTER_LO"])

\* the frames of the first k records; a part whose stream is NULL has none
RECURSIVE Frames(_, _, _)
Frames(data, ok, k) ==
  IF k = 0 THEN << >>
  ELSE Frames(data, ok, k - 1)
         \o (IF ok[k][1] THEN cmdstr \o data[k].cmd ELSE << >>)
         \o (IF ok[k][2] THEN rspstr \o data[k].response ELSE << >>)

\* the stream of the first k records of the flushed buffer
Stream(k, ok) == appstr \o << isr.sel >> \o Frames(isr.data, ok, k) \o endstr

\* C1: no byte of a flush is written to an address beyond EEPROM_MAX_ADDRESS.
C1_NoWritePastEnd ==
  \A k \in 1..Len(isr.written) : isr.written[k][1] <= EEPROM_MAX_ADDRESS

\* C2: after a run of the handler the stored cursor is not below the cursor
\* the handler loaded, is a multiple of 8 and is at most EEPROM_MAX_ADDRESS.
C2_CursorMonotoneAligned ==
  isr.ran =>
    /\ StoredCursor >= isr.addr0
    /\ StoredCursor % 8 = 0
    /\ StoredCursor <= EEPROM_MAX_ADDRESS

\* the serialized buffer does not fit between the loaded cursor and the end
Overflows ==
  isr.flushed /\ isr.addr0 + Len(Stream(isr.n0, isr.ok)) - 1 > EEPROM_MAX_ADDRESS

\* C3: a flush that does not fit writes the header, the complete frames of a
\* strict prefix of the records and the end marker, all within the region.
C3_TruncationSafe ==
  Overflows =>
    /\ \E k \in 0..(isr.n0 - 1) : Bytes(isr.written) = Stream(k, isr.ok)
    /\ \A j \in 1..Len(isr.written) : isr.written[j][1] <= EEPROM_MAX_ADDRESS

\* the flush has room for the whole stream of its buffer
EnoughSpace(ok) ==
  isr.flushed /\ isr.addr0 + Len(Stream(isr.n0, ok)) - 1 <= EEPROM_MAX_ADDRESS

\* C4 as stated: with enough room the bytes written from the loaded cursor
\* are the header, a command frame and a response frame of every record in
\* append order, and the end marker.
C4_StreamAllFrames ==
  EnoughSpace(AllOk(isr.n0)) =>
    /\ Bytes(isr.written) = Stream(isr.n0, AllOk(isr.n0))
    /\ Consecutive(isr.written, isr.addr0)

\* C4 amended: with enough room the bytes written from the loaded cursor are
\* the header, then for every record in append order the command frame when
\* SerializeCommand returned a stream and the response frame when
\* SerializeResponse returned one, then the end marker.
C4_StreamSerializedFrames ==
  EnoughSpace(isr.ok) =>
    /\ Bytes(isr.written) = Stream(isr.n0, isr.ok)
    /\ Consecutive(isr.written, isr.addr0)

\* a flush of two records, both serialized in full, with room for them
C4_Witness ==
  /\ EnoughSpace(isr.ok)
  /\ isr.n0 = 2
  /\ isr.ok = AllOk(2)
  /\ isr.data[1] # isr.data[2]

\* the smallest multiple of 8 that is >= x
RoundUp8(x) == ((x + 7) \div 8) * 8

\* the two records of the scenario
Scenario ==
  << [cmd |-> <<0, 164, 4, 0, 14>>, response |-> <<144, 0>>],
     [cmd |-> <<0, 192, 0, 0, 14>>, response |-> <<222, 173, 190, 239, 144, 0>>] >>

\* C5: after a flush that wrote every record the stored cursor is the loaded
\* cursor plus the bytes written, rounded up to a multiple of 8; the scenario
\* writes 49 bytes.
C5_CursorRoundedUp ==
  (isr.flushed /\ ~isr.brk) =>
    /\ LogPointer = RoundUp8(isr.addr0 + Len(isr.written))
    /\ (isr.data = Scenario /\ isr.ok = AllOk(2)) => Len(isr.written) = 49

C8_EveryRecordFreed ==
  isr.ran => \A i \in 1..isr.n0 : isr.freed[i] = 1

\* C9: after the handler has flushed the buffer, nTransactions is 0.
C9_DrainEmpties ==
  (isr.ran /\ isr.flushed) => nTransactions = 0

\* C10: a run of the handler with an empty buffer, or with the loaded cursor
\* at or past EEPROM_MAX_ADDRESS, writes nothing through addrStream and
\* leaves the stored log pointer as it was.
C10_NoOpFlush ==
  (isr.ran /\ (isr.n0 = 0 \/ isr.addr0 >= EEPROM_MAX_ADDRESS)) =>
    /\ isr.written = << >>
    /\ eeprom["EEPROM_TLOG_POINTER_HI"] = isr.hi0
    /\ eeprom["EEPROM_TLOG_POINTER_LO"] = isr.lo0

\* a non-empty buffer meets a cursor at or past the end of the region
C10_Witness ==
  /\ isr.ran
  /\ isr.n0 > 0
  /\ isr.addr0 >= EEPROM_MAX_ADDRESS

\* ------------------------------------------------------------------------
\* Properties of main and of the handler as a whole
\* ------------------------------------------------------------------------
\* C11: on every boot main calls exactly one application: once dispatch is
\* done an application of the switch has been called, and no other one is
\* called before the device restarts.
C11_OneApplicationPerBoot ==
  /\ [](pc \in {"running", "leds"} => app \in KnownApps)
  /\ [][(pc \in {"running", "leds"}) => (app' = app \/ pc' = "boot")]_vars

\* C12: once the handler has run and armed the watchdog, no step of the
\* foreground is taken before the restart: the log buffer, the EEPROM and
\* the position of main stay as the handler left them until pc is "boot".
C12_NoForegroundAfterHandler ==
  [][isr.ran =>
       \/ pc' = "boot"
       \/ UNCHANGED << pc, app, selected, transactionData, nTransactions,
                       eeprom >>]_vars

\* C13: a selection X of the menu other than the erase is stored in
\* EEPROM_APPLICATION with the watchdog armed, and at the following boot
\* without button B the EEPROM still holds X and main dispatches X, for
\* every X that has a case in the switch.
C13_SelectionSurvivesReboot ==
  /\ []((boot.path = "menu" /\ pc = "dispatch"
           /\ boot.menu # APP_ERASE_EEPROM)
          => (eeprom["EEPROM_APPLICATION"] = boot.menu /\ wdt))
  /\ []((boot.path = "read" /\ pc = "dispatch" /\ boot.menu \in KnownApps)
          => (eeprom["EEPROM_APPLICATION"] = boot.menu
                /\ selected = boot.menu))
  /\ [][(boot.path = "read" /\ pc = "dispatch" /\ boot.menu \in KnownApps
           /\ pc' # "boot")
          => app' = boot.menu]_vars

\* C14: when the erase is selected in the menu, every field of the EEPROM
\* holds the erased value from the erase until the restart and at the start
\* of the following boot.
C14_ErasedUntilNextBoot ==
  (boot.menu = APP_ERASE_EEPROM /\ (boot.path = "menu" \/ pc = "boot"))
    => \A f \in EEFields : eeprom[f] = ERASED

C16_NoWriteWhileArmed ==
  [][(wdt /\ eeprom' # eeprom) => (~isr.ran /\ isr'.ran)]_vars

\* C17: every run of the handler, flushing or not, leaves the watchdog armed
\* until the restart, and under fairness leads to a boot in which InitSCD has
\* disabled the watchdog and the log buffer is empty before main selects an
\* application.
C17_EdgeLeadsToBoot ==
  /\ [](isr.ran => wdt)
  /\ [](pc \in {"main", "dispatch"} => nTransactions = 0)
  /\ [](pc = "main" => ~wdt)
  /\ isr.ran ~> (pc = "main" /\ ~wdt /\ nTransactions = 0 /\ ~isr.ran)

\* a handler run that did not flush, with the watchdog armed
C17_Witness ==
  /\ isr.ran
  /\ ~isr.flushed
  /\ isr.n0 > 0
  /\ wdt

\* C18: a flush that finds the erased pointer 0xFFFF starts at
\* EEPROM_TLOG_DATA, any other flush starts at the stored pointer; and the
\* pointer a flush stores, where the next flush will start, is not below the
\* page boundary that follows its end marker, so that two consecutive
\* flushes do not overlap.
C18_FlushesDoNotOverlap ==
  isr.ran =>
    /\ isr.addr0 = IF Word(isr.hi0, isr.lo0) = Word(ERASED, ERASED)
                   THEN EEPROM_TLOG_DATA
                   ELSE Word(isr.hi0, isr.lo0)
    /\ isr.flushed =>
         /\ isr.written[1][1] = isr.addr0
         /\ StoredCursor >= RoundUp8(isr.addr0 + Len(isr.written))

C20_StoredAppUntouched ==
  [][(boot.path = "read" /\ ~boot.dflt /\ pc \in {"running", "leds"})
       => eeprom'["EEPROM_APPLICATION"] = eeprom["EEPROM_APPLICATION"]]_vars

====
